---- MODULE Spec2Model ----
(***************************************************************************)
(* Medical archive: the dataset indexer, the scan normalizer, the           *)
(* deduplicating ingestion loop, the single-record intake, the retrievals, *)
(* the similarity search and the db_mission wrapper of demo.py/utils.py.   *)
(*                                                                         *)
(* Strings that the code inspects character by character (folder names,   *)
(* file names) are tuples of one-character strings.  A path is a tuple of  *)
(* such names (os.path.join appends a component, os.path.basename takes    *)
(* the last one).                                                          *)
(***************************************************************************)
EXTENDS Integers, Sequences, FiniteSets, TLC

\* ------------------------------------------------------------------ bounds
\* Longest directory listing the indexer specification enumerates.
MaxFiles == 4

\* ----------------------------------------------------------- str helpers
Digits == {"0", "1", "2", "3", "4", "5", "6", "7", "8", "9"}

\* Code point of a character (Python compares str by code point).
Ord(c) ==
  CASE c = "-" -> 45 [] c = "." -> 46
    [] c = "0" -> 48 [] c = "1" -> 49 [] c = "2" -> 50 [] c = "7" -> 55
    [] c = "A" -> 65 [] c = "B" -> 66 [] c = "C" -> 67 [] c = "D" -> 68
    [] c = "I" -> 73 [] c = "M" -> 77 [] c = "P" -> 80 [] c = "T" -> 84
    [] c = "a" -> 97 [] c = "b" -> 98 [] c = "c" -> 99 [] c = "d" -> 100
    [] c = "i" -> 105 [] c = "m" -> 109 [] c = "t" -> 116 [] c = "x" -> 120
    [] OTHER -> 0

\* str.lower() on one character.
LowerChar(c) ==
  CASE c = "A" -> "a" [] c = "B" -> "b" [] c = "C" -> "c" [] c = "D" -> "d"
    [] c = "I" -> "i" [] c = "M" -> "m" [] c = "P" -> "p" [] c = "T" -> "t"
    [] OTHER -> c

\* str.lower()
Lower(s) == [i \in 1..Len(s) |-> LowerChar(s[i])]

\* str.endswith(suffix)
EndsWith(s, suffix) ==
  /\ Len(s) >= Len(suffix)
  /\ SubSeq(s, Len(s) - Len(suffix) + 1, Len(s)) = suffix

\* str.isdigit(): non-empty and every character a digit.
IsDigit(s) == Len(s) > 0 /\ \A i \in 1..Len(s) : s[i] \in Digits

\* str(int(s)) for an all-digit s: the leading zeros go, one digit stays.
RECURSIVE StripZeros(_)
StripZeros(s) ==
  IF Len(s) > 1 /\ s[1] = "0" THEN StripZeros(Tail(s)) ELSE s

\* Python's str "<": the first differing code point decides; a proper
\* prefix is smaller.
RECURSIVE StrLess(_, _)
StrLess(a, b) ==
  IF Len(b) = 0 THEN FALSE
  ELSE IF Len(a) = 0 THEN TRUE
  ELSE IF Ord(a[1]) # Ord(b[1]) THEN Ord(a[1]) < Ord(b[1])
  ELSE StrLess(Tail(a), Tail(b))

\* list.sort() on a list of str: insertion into an ascending list.
RECURSIVE InsertSorted(_, _)
InsertSorted(x, sorted) ==
  IF sorted = << >> THEN << x >>
  ELSE IF StrLess(Head(sorted), x) THEN << Head(sorted) >> \o InsertSorted(x, Tail(sorted))
  ELSE << x >> \o sorted

RECURSIVE SortStr(_)
SortStr(lst) ==
  IF lst = << >> THEN << >> ELSE InsertSorted(Head(lst), SortStr(Tail(lst)))

\* ------------------------------------------------------- dataset indexer
EXT_IMA == << ".", "i", "m", "a" >>
EXT_DCM == << ".", "d", "c", "m" >>
PAT_PREFIX == << "P", "A", "T", "-" >>
NAME_PREFIX == << "P", "a", "t", "i", "e", "n", "t", " " >>

\* f.lower().endswith('.ima') or f.lower().endswith('.dcm')
IsDicomName(f) == EndsWith(Lower(f), EXT_IMA) \/ EndsWith(Lower(f), EXT_DCM)

\* [f for f in files if ...]: keeps the listing's order.
RECURSIVE DicomFiles(_)
DicomFiles(files) ==
  IF files = << >> THEN << >>
  ELSE IF IsDicomName(Head(files)) THEN << Head(files) >> \o DicomFiles(Tail(files))
  ELSE DicomFiles(Tail(files))

\* Mutant: the lower median, (len - 1) // 2.
MiddleIdxLower(dicom_files) == (Len(dicom_files) - 1) \div 2

\* len(dicom_files) // 2, as a 0-based index.
MiddleIdx(dicom_files) == Len(dicom_files) \div 2

\* dicom_files.sort(); target_file = dicom_files[middle_idx]  (0-based index).
TargetFile(dicom_files) == SortStr(dicom_files)[MiddleIdx(dicom_files) + 1]

\* Mutant: the folder name is looked up as it is.
NormalizedKeyRaw(p_id_folder) == p_id_folder

\* str(int(p_id_folder)) if p_id_folder.isdigit() else p_id_folder
NormalizedKey(p_id_folder) ==
  IF IsDigit(p_id_folder) THEN StripZeros(p_id_folder) ELSE p_id_folder

\* os.path.basename(root)
Basename(path) == path[Len(path)]

\* The record appended for one directory of the walk.
Candidate(p_id_folder, meta, entry) ==
  [ patient_id  |-> PAT_PREFIX \o p_id_folder,
    original_id |-> NormalizedKey(p_id_folder),
    name        |-> NAME_PREFIX \o NormalizedKey(p_id_folder),
    scan_type   |-> Basename(entry.root),
    notes       |-> meta[NormalizedKey(p_id_folder)],
    file_path   |-> Append(entry.root, TargetFile(DicomFiles(entry.files))) ]

\* for root, dirs, files in os.walk(p_path): one candidate per directory
\* that lists at least one scan file.
RECURSIVE WalkFolder(_, _, _)
WalkFolder(p_id_folder, meta, walk) ==
  IF walk = << >> THEN << >>
  ELSE IF DicomFiles(Head(walk).files) # << >>
       THEN << Candidate(p_id_folder, meta, Head(walk)) >> \o WalkFolder(p_id_folder, meta, Tail(walk))
       ELSE WalkFolder(p_id_folder, meta, Tail(walk))

\* The folder is skipped unless its normalized key is in meta_lookup.
FolderAnnotated(p_id_folder, meta) == NormalizedKey(p_id_folder) \in DOMAIN meta

\* scan_directory(source_path, meta_lookup): folders in os.listdir order,
\* each folder [name, walk], walk the os.walk sequence of [root, files].
RECURSIVE scan_directory(_, _)
scan_directory(folders, meta) ==
  IF folders = << >> THEN << >>
  ELSE (IF FolderAnnotated(Head(folders).name, meta)
        THEN WalkFolder(Head(folders).name, meta, Head(folders).walk)
        ELSE << >>) \o scan_directory(Tail(folders), meta)

\* ---------------------------------------------------------------- state
VARIABLES
  source,       \* the source directory: identity folders in os.listdir order
  meta_lookup,  \* {normalized patient id: notes}, loaded from the report
  disk,         \* file path -> content of the scan file
  indexed,      \* what scan_directory last returned
  collection,   \* MedicalArchive.PatientScans: a set of documents
  fs,           \* GridFS: the stored files
  next_id,      \* the next ObjectId GridFS hands out
  pc,           \* per worker: where it is in its operation
  run,          \* per worker: the locals of its operation
  model,        \* utils._model is loaded (the module's cached CLIP model)
  started,      \* operations started so far
  last_op,      \* the operation that ended last (history)
  results,      \* what collection.aggregate returned to the last search
  printed,      \* the [Match] lines the last search printed
  processed,    \* what process_dicom_image last returned
  mission,      \* the db_mission wrapper: its phase and where it is
  clients       \* MongoClient objects opened and not closed

envVars == << source, meta_lookup, disk >>
storeVars == << collection, fs, next_id >>
workVars == << pc, run, model, started, last_op >>
searchVars == << results, printed >>
missionVars == << processed, mission, clients >>

vars == << source, meta_lookup, disk, indexed, collection, fs, next_id,
           pc, run, model, started, last_op, results, printed,
           processed, mission, clients >>

\* ------------------------------------------------------- the two stores
\* The workers that run operations against the archive.
Workers == { "w1", "w2" }

\* dataset = dataset[:300]
LIMIT == 300

\* Output dimension of the embedding model (the index's "dimensions").
CLIP_DIM == 512

Min(a, b) == IF a < b THEN a ELSE b

\* dataset[:LIMIT]
Truncate(dataset) == SubSeq(dataset, 1, Min(Len(dataset), LIMIT))

\* Mutant: the filter matches the display name against the patient id.
count_documents_by_name(coll, p_id, s_type) ==
  Cardinality({ d \in coll : d.name = p_id /\ d.scan_type = s_type })

\* Mutant: the filter names a field no document has, nothing ever counts.
count_documents_none(coll, p_id, s_type) ==
  Cardinality({ d \in coll : "patient" \in DOMAIN d /\ d.scan_type = s_type })

\* collection.count_documents({"patient_id": p_id, "scan_type": s_type})
count_documents(coll, p_id, s_type) ==
  Cardinality({ d \in coll : d.patient_id = p_id /\ d.scan_type = s_type })

\* f"{patient_id}_{scan_type}.jpg"
JpgName(p_id, s_type) == p_id \o << "_" >> \o s_type \o << ".", "j", "p", "g" >>

\* ------------------------------------------------------ scan normalizer
RECURSIVE MaxOf(_)
\* pixel_array.max()
MaxOf(px) ==
  IF Len(px) = 1 THEN px[1]
  ELSE LET m == MaxOf(Tail(px)) IN IF px[1] > m THEN px[1] ELSE m

\* Mutant: the intensities are scaled without np.maximum(pixel_array, 0).
ScaledUnclamped(px) ==
  LET m == MaxOf(px)
  IN  [ i \in 1..Len(px) |-> IF m > 0 THEN (px[i] * 255) \div m ELSE 0 ]

\* np.uint8((np.maximum(pixel_array, 0) / pixel_array.max()) * 255.0) for a
\* maximum that is not 0: the float quotient times 255.0, truncated (for
\* integer intensities the truncated float equals the integer quotient).
\* With a negative maximum every quotient is -0.0 and the cast gives 0.
\* (The value kept here for a maximum of 0 is one of the casts of nan, see
\* ToImages.)
Scaled(px) ==
  LET m == MaxOf(px)
  IN  [ i \in 1..Len(px) |->
          IF m > 0 THEN ((IF px[i] > 0 THEN px[i] ELSE 0) * 255) \div m ELSE 0 ]

\* Image.fromarray(scaled_image), then convert("RGB") of a grayscale image.
ToImage(px) == [ mode |-> "RGB", px |-> Scaled(px) ]

\* What the cast of nan to uint8 may give: C leaves the conversion
\* undefined, numpy warns and stores whatever the platform produced.
NanCast == { 0, 255 }

\* The images the normalization may produce.  A maximum of 0 makes every
\* quotient 0/0 = nan (a RuntimeWarning, no exception), and every pixel
\* the platform's cast of nan.
ToImages(px) ==
  IF MaxOf(px) = 0
  THEN { [ mode |-> "RGB", px |-> [ i \in 1..Len(px) |-> v ] ] : v \in NanCast }
  ELSE { ToImage(px) }

\* image.save(img_byte_arr, format='JPEG')
ToJpeg(image) == [ format |-> "JPEG", of |-> image.px ]

\* ---------------------------------------------------- embedding adapter
EmptyVector == [ dim |-> 0, feat |-> << >> ]

\* _model.encode(img).tolist(): CLIP_DIM floats, a function of the image
\* (held as the image they are computed from).
Encode(image) == [ dim |-> CLIP_DIM, feat |-> image.px ]

\* get_real_embedding(source), for a worker whose _model is loaded or not
\* and a source that opens as an image or not.  Loading the model is
\* outside the try and may raise; everything after it is inside and a
\* failure there returns [].
get_real_embedding(loaded, opens, image) ==
  (IF loaded THEN {} ELSE { [ raised |-> TRUE, loaded |-> FALSE, vector |-> EmptyVector ] })
  \cup { [ raised |-> FALSE, loaded |-> TRUE, vector |-> EmptyVector ] }
  \cup (IF opens
        THEN { [ raised |-> FALSE, loaded |-> TRUE, vector |-> Encode(image) ] }
        ELSE {})

\* ------------------------------------------- the indexer's specification
\* File names a directory listing may hold.
N_a_dcm  == << "a", ".", "d", "c", "m" >>
N_b_dcm  == << "b", ".", "d", "c", "m" >>
N_c_dcm  == << "c", ".", "d", "c", "m" >>
N_ab_dcm == << "a", "b", ".", "d", "c", "m" >>
N_B_IMA  == << "B", ".", "I", "M", "A" >>
N_n_txt  == << "a", "a", ".", "t", "x", "t" >>
FileNames == { N_a_dcm, N_b_dcm, N_c_dcm, N_ab_dcm, N_B_IMA, N_n_txt }

\* Names of identity folders, and the keys the report may hold.
D_0007 == << "0", "0", "0", "7" >>
D_7    == << "7" >>
D_abc  == << "a", "b", "c" >>
D_00   == << "0", "0" >>
D_0    == << "0" >>
D_T1   == << "T", "1" >>
D_T2   == << "T", "2" >>
FolderNames == { D_0007, D_7, D_abc, D_00 }
MetaKeys == { D_7, D_abc, D_0007 }

\* The notes the report holds for a key.
NotesOf(key) == << "n", "o", "t", "e", "-" >> \o key

\* Every listing of at most MaxFiles distinct names, in every order.
Listings ==
  { l \in UNION { [1..n -> FileNames] : n \in 0..MaxFiles } :
      \A i, j \in 1..Len(l) : i # j => l[i] # l[j] }

\* An identity folder with one series directory below it; os.walk yields
\* the folder itself first.
Folder(name, top, files) ==
  [ name |-> name,
    walk |-> << [ root |-> << name >>, files |-> top ],
                [ root |-> << name, D_T1 >>, files |-> files ] >> ]

IndexSources ==
  { << Folder(n, << >>, l) >> : n \in FolderNames, l \in Listings }
  \cup
  { << Folder(m, << N_b_dcm >>, << N_n_txt >>), Folder(n, << >>, l) >> :
      m \in { D_7, D_abc }, n \in { D_0007, D_00 }, l \in Listings }

IndexMetas == { [ k \in ks |-> NotesOf(k) ] : ks \in SUBSET MetaKeys }

NoDataset == [ ran |-> FALSE, dataset |-> << >> ]

\* Nothing was given to process_dicom_image yet; no phase is running.
NotProcessed == [ state |-> "none" ]
NoneRecord == [ none |-> TRUE ]
NoKey == [ p_id |-> << >>, s_type |-> << >> ]
NoMission ==
  [ phase |-> "none", pc |-> "out", entered |-> 0, from |-> 0,
    key |-> NoKey, anchor |-> NoneRecord ]
NoOp == [ kind |-> "none", done |-> FALSE, clean |-> FALSE ]

InitIndex ==
  /\ source \in IndexSources
  /\ meta_lookup \in IndexMetas
  /\ disk = << >>
  /\ indexed = NoDataset
  /\ collection = {}
  /\ fs = {}
  /\ next_id = 1
  /\ pc = << >>
  /\ run = << >>
  /\ model = FALSE
  /\ started = 0
  /\ last_op = NoOp
  /\ results = [ state |-> "none", rows |-> << >> ]
  /\ printed = << >>
  /\ processed = NotProcessed
  /\ mission = NoMission
  /\ clients = 0

\* dataset = scan_directory(source_path, meta_lookup)
ScanDirectory ==
  /\ ~indexed.ran
  /\ indexed' = [ ran |-> TRUE, dataset |-> scan_directory(source, meta_lookup) ]
  /\ UNCHANGED << envVars, storeVars, workVars, searchVars, missionVars >>

NextIndex == ScanDirectory

SpecIndex == InitIndex /\ [][NextIndex]_vars

\* ------------------------------------------------ claims on the indexer
\* Lexicographic order by code point, stated without recursion: a is a
\* proper prefix of b, or the first position where they differ has the
\* smaller code point in a.
LexBefore(a, b) ==
  \/ /\ Len(a) < Len(b)
     /\ \A i \in 1..Len(a) : a[i] = b[i]
  \/ \E k \in 1..Len(a) :
       /\ k <= Len(b)
       /\ \A i \in 1..(k - 1) : a[i] = b[i]
       /\ Ord(a[k]) < Ord(b[k])

Elems(seq) == { seq[i] : i \in 1..Len(seq) }

\* The scan files a listing holds, as a set.
ScanFilesOf(files) ==
  { f \in Elems(files) :
      \E e \in { EXT_IMA, EXT_DCM } :
        /\ Len(f) >= Len(e)
        /\ \A i \in 1..Len(e) : LowerChar(f[Len(f) - Len(e) + i]) = e[i] }

\* The directory a candidate's file lies in, and the file's name.
DirOf(c) == SubSeq(c.file_path, 1, Len(c.file_path) - 1)
FileOf(c) == c.file_path[Len(c.file_path)]

\* The candidates of the dataset that come from a directory.
CandidatesIn(dataset, root) ==
  { i \in 1..Len(dataset) : DirOf(dataset[i]) = root }

\* The candidates of the dataset that come from an identity folder.
CandidatesOf(dataset, name) ==
  { i \in 1..Len(dataset) : dataset[i].file_path[1] = name }

\* k is the key the report must hold for the folder: the name itself, or,
\* for a name made of digits only, the name without its leading zeros.
IsKeyOf(k, name) ==
  IF \A i \in 1..Len(name) : name[i] \in Digits
  THEN \E z \in 0..(Len(name) - 1) :
         /\ \A i \in 1..z : name[i] = "0"
         /\ k = SubSeq(name, z + 1, Len(name))
         /\ Len(k) = 1 \/ k[1] # "0"
  ELSE k = name

Annotated(name) == \E k \in DOMAIN meta_lookup : IsKeyOf(k, name)

\* The directories the walk visits below annotated identity folders.
WalkedEntries ==
  UNION { Elems(source[i].walk) : i \in { j \in 1..Len(source) : Annotated(source[j].name) } }

\* C7: every directory of an annotated identity folder that lists n >= 1
\* scan files yields exactly one candidate, and its file is the one that
\* has exactly n div 2 of the directory's scan files before it in
\* lexicographic order, whatever the order of the listing.
C7_MedianRepresentative ==
  indexed.ran =>
    \A e \in WalkedEntries :
      LET scans == ScanFilesOf(e.files)
          n     == Cardinality(scans)
          cs    == CandidatesIn(indexed.dataset, e.root)
      IN  IF n = 0 THEN cs = {}
          ELSE /\ Cardinality(cs) = 1
               /\ \A i \in cs :
                    /\ FileOf(indexed.dataset[i]) \in scans
                    /\ Cardinality({ g \in scans : LexBefore(g, FileOf(indexed.dataset[i])) })
                         = n \div 2

\* C7 witness: a directory of four scan files listed out of order, indexed.
C7_Witness ==
  /\ indexed.ran
  /\ \E e \in WalkedEntries :
       /\ Cardinality(ScanFilesOf(e.files)) = 4
       /\ e.files[1] = N_c_dcm
       /\ \E i \in CandidatesIn(indexed.dataset, e.root) :
            FileOf(indexed.dataset[i]) = N_b_dcm

\* The identity folder holds a scan file in some directory of its walk.
HoldsScans(folder) ==
  \E e \in Elems(folder.walk) : ScanFilesOf(e.files) # {}

\* C8: an identity folder that holds scan files produces candidates if and
\* only if the report has its key (the name, or the name without leading
\* zeros when it is all digits); a folder without scan files produces
\* none; every candidate carries the notes of that key; a root with no
\* annotated folder yields the empty dataset.
C8_AnnotatedFoldersOnly ==
  indexed.ran =>
    /\ \A i \in 1..Len(source) :
         LET folder == source[i]
             cs     == CandidatesOf(indexed.dataset, folder.name)
         IN  /\ (cs # {}) <=> (HoldsScans(folder) /\ Annotated(folder.name))
             /\ \A c \in cs :
                  \E k \in DOMAIN meta_lookup :
                    /\ IsKeyOf(k, folder.name)
                    /\ indexed.dataset[c].notes = meta_lookup[k]
                    /\ indexed.dataset[c].original_id = k
                    /\ indexed.dataset[c].patient_id = PAT_PREFIX \o folder.name
    /\ (\A i \in 1..Len(source) : ~Annotated(source[i].name)) => indexed.dataset = << >>

\* C8 witness: folder "0007" matched by the report's key "7".
C8_Witness ==
  /\ indexed.ran
  /\ D_7 \in DOMAIN meta_lookup
  /\ D_0007 \notin DOMAIN meta_lookup
  /\ \E i \in 1..Len(indexed.dataset) :
       /\ indexed.dataset[i].file_path[1] = D_0007
       /\ indexed.dataset[i].notes = NotesOf(D_7)

\* ----------------------------------------------- the ingestion's inputs
\* Operations started in one behaviour.
MaxOps == 2

D_A == << "A" >>
D_B == << "B" >>
D_007 == << "0", "0", "7" >>

Dir(root, files) == [ root |-> root, files |-> files ]

\* One annotated study "0007" (report key "7") with two series, and one
\* study the report does not know.
SourceOne ==
  [ folders |->
      << [ name |-> D_0007,
           walk |-> << Dir(<< D_0007 >>, << >>),
                       Dir(<< D_0007, D_T1 >>, << N_c_dcm, N_a_dcm, N_b_dcm >>),
                       Dir(<< D_0007, D_T2 >>, << N_n_txt, N_B_IMA >>) >> ],
         [ name |-> D_abc,
           walk |-> << Dir(<< D_abc >>, << >>),
                       Dir(<< D_abc, D_T1 >>, << N_a_dcm >>) >> ] >>,
    meta |-> [ k \in { D_7 } |-> NotesOf(k) ] ]

\* One study with two series directories of the same name.
SourceTwins ==
  [ folders |->
      << [ name |-> D_7,
           walk |-> << Dir(<< D_7 >>, << >>),
                       Dir(<< D_7, D_A >>, << >>),
                       Dir(<< D_7, D_A, D_T1 >>, << N_a_dcm >>),
                       Dir(<< D_7, D_B >>, << >>),
                       Dir(<< D_7, D_B, D_T1 >>, << N_b_dcm, N_a_dcm >>) >> ] >>,
    meta |-> [ k \in { D_7 } |-> NotesOf(k) ] ]

\* Two studies, three series.
SourceThree ==
  [ folders |->
      << [ name |-> D_7,
           walk |-> << Dir(<< D_7 >>, << >>),
                       Dir(<< D_7, D_T1 >>, << N_a_dcm >>),
                       Dir(<< D_7, D_T2 >>, << N_b_dcm >>) >> ],
         [ name |-> D_abc,
           walk |-> << Dir(<< D_abc >>, << >>),
                       Dir(<< D_abc, D_T1 >>, << N_c_dcm >>) >> ] >>,
    meta |-> [ k \in { D_7, D_abc } |-> NotesOf(k) ] ]

IngestSources == { SourceOne, SourceTwins, SourceThree }

\* Content of a scan file: unreadable by pydicom, or a pixel array.
Corrupt == [ readable |-> FALSE, pixels |-> << >> ]
Scan(px) == [ readable |-> TRUE, pixels |-> px ]
Contents == { Corrupt, Scan(<< -5, 0, 10, 40 >>) }

\* The files the indexer selects in a source.
SelectedPaths(src) ==
  LET ds == scan_directory(src.folders, src.meta)
  IN  { ds[i].file_path : i \in 1..Len(ds) }

\* The image file given to a single-record intake: absent, present but not
\* an image, or an image.
HeroImages ==
  { [ exists |-> FALSE, opens |-> FALSE, image |-> [ mode |-> "RGB", px |-> << >> ] ],
    [ exists |-> TRUE,  opens |-> FALSE, image |-> [ mode |-> "RGB", px |-> << >> ] ],
    [ exists |-> TRUE,  opens |-> TRUE,  image |-> [ mode |-> "RGB", px |-> << 7 >> ] ] }

\* The records a single intake may be asked to store: the hero record of
\* phase 2, or the first scan the bulk run will find.
SingleArgs ==
  LET ds == Truncate(scan_directory(source, meta_lookup))
      keys == { [ p_id |-> PAT_PREFIX \o D_007, name |-> << "J", "B" >>, s_type |-> D_T2 ] }
              \cup (IF ds = << >> THEN {}
                    ELSE { [ p_id |-> ds[1].patient_id, name |-> ds[1].name,
                             s_type |-> ds[1].scan_type ] })
  IN  { [ p_id |-> k.p_id, name |-> k.name, s_type |-> k.s_type, img |-> h ] :
          k \in keys, h \in HeroImages }

NoArgs ==
  [ p_id |-> << >>, name |-> << >>, s_type |-> << >>,
    img |-> [ exists |-> FALSE, opens |-> FALSE, image |-> [ mode |-> "RGB", px |-> << >> ] ] ]

NoImage == [ mode |-> "", px |-> << >> ]
NoPayload == [ format |-> "", of |-> << >> ]

\* A worker's locals.  queries, start_coll, start_fs, prev, faulted and
\* mine are history: the count_documents calls the operation issued, the
\* stores when the operation began, the operation that had ended last by
\* then, whether an adapter call raised, and the GridFS ids the operation
\* was handed.
IdleRun ==
  [ kind |-> "none", dataset |-> << >>, idx |-> 0, args |-> NoArgs,
    image |-> NoImage, payload |-> NoPayload, vector |-> EmptyVector, f_id |-> 0,
    success_count |-> 0, log |-> << >>, queries |-> 0,
    start_coll |-> {}, start_fs |-> {}, prev |-> NoOp, faulted |-> FALSE, mine |-> {} ]

InitIngest ==
  /\ \E src \in IngestSources :
       /\ source = src.folders
       /\ meta_lookup = src.meta
       /\ disk \in [ SelectedPaths(src) -> Contents ]
  /\ indexed = NoDataset
  /\ collection = {}
  /\ fs = {}
  /\ next_id = 1
  /\ pc = [ w \in Workers |-> "idle" ]
  /\ run = [ w \in Workers |-> IdleRun ]
  /\ model = FALSE
  /\ started = 0
  /\ last_op = NoOp
  /\ results = [ state |-> "none", rows |-> << >> ]
  /\ printed = << >>
  /\ processed = NotProcessed
  /\ mission = NoMission
  /\ clients = 0

\* No other worker is in the middle of an operation.
Alone(w) == \A v \in Workers \ { w } : pc[v] = "idle"

Begin(w, kind) ==
  [ IdleRun EXCEPT !.kind = kind,
                   !.start_coll = collection, !.start_fs = fs, !.prev = last_op ]

\* What is kept of an operation that ended: its kind, whether it ran to its
\* end, and whether it did so without any adapter call raising.
Ended(w, how, faulted) ==
  [ kind |-> run[w].kind, done |-> (how = "done"), clean |-> (how = "done" /\ ~faulted) ]

\* The worker's locals go when its operation ends.
Rest(w) == IdleRun


\* -------------------------------------------- ingest_big_data_archive
\* The loop's current record.
Record(w) == run[w].dataset[run[w].idx]

\* Mutant: the first failure ends the loop.
NextRecordStopsOnFailure(w, outcome) ==
  /\ run' = [ run EXCEPT ![w].idx = @ + 1,
                         ![w].log = Append(@, outcome),
                         ![w].faulted = @ \/ (outcome = "adapter"),
                         ![w].queries = IF pc[w] = "count" THEN @ + 1 ELSE @,
                         ![w].success_count = IF outcome = "ok" THEN @ + 1 ELSE @,
                         ![w].image = NoImage,
                         ![w].payload = NoPayload,
                         ![w].vector = EmptyVector,
                         ![w].f_id = 0 ]
  /\ pc' = [ pc EXCEPT ![w] = IF run[w].idx + 1 > Len(run[w].dataset)
                                 \/ outcome \in { "adapter", "undecodable" }
                              THEN "report" ELSE "count" ]

\* The loop moves on to the next record, or to the final report.  outcome
\* is what the loop did with the record: "skip" (continue), "ok"
\* (inserted, success_count += 1), or the except branch's [Error] line,
\* for a scan that cannot be read ("undecodable") or for a call of the
\* store or the model that raised ("adapter").  A record left at the
\* duplication check has had its count_documents call issued.
NextRecord(w, outcome) ==
  /\ run' = [ run EXCEPT ![w].idx = @ + 1,
                         ![w].log = Append(@, outcome),
                         ![w].faulted = @ \/ (outcome = "adapter"),
                         ![w].queries = IF pc[w] = "count" THEN @ + 1 ELSE @,
                         ![w].success_count = IF outcome = "ok" THEN @ + 1 ELSE @,
                         ![w].image = NoImage,
                         ![w].payload = NoPayload,
                         ![w].vector = EmptyVector,
                         ![w].f_id = 0 ]
  /\ pc' = [ pc EXCEPT ![w] = IF run[w].idx + 1 > Len(run[w].dataset) THEN "report" ELSE "count" ]

\* Lines 131-170: index the source, keep the first LIMIT records.
StartBulk(w) ==
  /\ pc[w] = "idle"
  /\ started < MaxOps
  /\ started' = started + 1
  /\ LET dataset == Truncate(scan_directory(source, meta_lookup))
     IN  /\ run' = [ run EXCEPT ![w] = [ Begin(w, "bulk") EXCEPT !.dataset = dataset, !.idx = 1 ] ]
         /\ pc' = [ pc EXCEPT ![w] = IF dataset = << >> THEN "report" ELSE "count" ]
  /\ UNCHANGED << envVars, model, indexed, storeVars, last_op, searchVars, missionVars >>

\* Mutant: the loop has no duplication check.
BulkCountUnchecked(w) ==
  /\ pc[w] = "count"
  /\ pc' = [ pc EXCEPT ![w] = "dcmread" ]
  /\ UNCHANGED << envVars, model, indexed, storeVars, run, started, last_op, searchVars, missionVars >>

\* Line 178: the duplication check; the query may raise.
BulkCount(w) ==
  /\ pc[w] = "count"
  /\ \E answered \in BOOLEAN :
       IF ~answered THEN NextRecord(w, "adapter")
       ELSE IF count_documents(collection, Record(w).patient_id, Record(w).scan_type) > 0
       THEN NextRecord(w, "skip")
       ELSE /\ pc' = [ pc EXCEPT ![w] = "dcmread" ]
            /\ run' = [ run EXCEPT ![w].queries = @ + 1 ]
  /\ UNCHANGED << envVars, model, indexed, storeVars, started, last_op, searchVars, missionVars >>

\* Lines 182-199: read the scan, normalize it, make the RGB image and its
\* JPEG bytes.  An unreadable file raises.
BulkDcmread(w) ==
  /\ pc[w] = "dcmread"
  /\ LET content == disk[Record(w).file_path]
     IN  IF ~content.readable THEN NextRecord(w, "undecodable")
         ELSE /\ \E image \in ToImages(content.pixels) :
                   run' = [ run EXCEPT ![w].image = image, ![w].payload = ToJpeg(image) ]
              /\ pc' = [ pc EXCEPT ![w] = "embed" ]
  /\ UNCHANGED << envVars, model, indexed, storeVars, started, last_op, searchVars, missionVars >>

\* Line 203: vector = get_real_embedding(image)
BulkEmbed(w) ==
  /\ pc[w] = "embed"
  /\ \E out \in get_real_embedding(model, TRUE, run[w].image) :
       /\ model' = out.loaded
       /\ IF out.raised THEN NextRecord(w, "adapter")
          ELSE /\ run' = [ run EXCEPT ![w].vector = out.vector ]
               /\ pc' = [ pc EXCEPT ![w] = "put" ]
  /\ UNCHANGED << envVars, indexed, storeVars, started, last_op, searchVars, missionVars >>

\* Mutant: a failed upload is swallowed and the loop goes on to the insert
\* with the id the upload would have been given.
BulkPutSwallowing(w) ==
  /\ pc[w] = "put"
  /\ \E stored \in BOOLEAN :
       /\ fs' = IF stored
                THEN fs \cup { [ id |-> next_id,
                                 filename |-> JpgName(Record(w).patient_id, Record(w).scan_type),
                                 data |-> run[w].payload ] }
                ELSE fs
       /\ next_id' = next_id + 1
       /\ run' = [ run EXCEPT ![w].f_id = next_id, ![w].mine = @ \cup { next_id } ]
       /\ pc' = [ pc EXCEPT ![w] = "insert" ]
  /\ UNCHANGED << envVars, model, indexed, collection, started, last_op, searchVars, missionVars >>

\* Line 206: f_id = fs.put(...); the upload may raise.
BulkPut(w) ==
  /\ pc[w] = "put"
  /\ \E stored \in BOOLEAN :
       IF ~stored
       THEN /\ NextRecord(w, "adapter")
            /\ UNCHANGED << fs, next_id >>
       ELSE /\ fs' = fs \cup { [ id |-> next_id,
                                 filename |-> JpgName(Record(w).patient_id, Record(w).scan_type),
                                 data |-> run[w].payload ] }
            /\ next_id' = next_id + 1
            /\ run' = [ run EXCEPT ![w].f_id = next_id, ![w].mine = @ \cup { next_id } ]
            /\ pc' = [ pc EXCEPT ![w] = "insert" ]
  /\ UNCHANGED << envVars, model, indexed, collection, started, last_op, searchVars, missionVars >>

\* Lines 209-217
BulkDoc(w) ==
  [ patient_id      |-> Record(w).patient_id,
    name            |-> Record(w).name,
    scan_type       |-> Record(w).scan_type,
    clinician_notes |-> Record(w).notes,
    image_file_id   |-> run[w].f_id,
    image_vector    |-> run[w].vector,
    dicom_source    |-> Record(w).file_path ]

\* Lines 218-219: collection.insert_one(doc); the write may raise.
BulkInsert(w) ==
  /\ pc[w] = "insert"
  /\ \E written \in BOOLEAN :
       IF ~written
       THEN /\ NextRecord(w, "adapter")
            /\ UNCHANGED collection
       ELSE /\ collection' = collection \cup { BulkDoc(w) }
            /\ NextRecord(w, "ok")
  /\ UNCHANGED << envVars, model, indexed, fs, next_id, started, last_op, searchVars, missionVars >>

\* Line 227: the loop is over, the run reports its count and returns.
BulkReport(w) ==
  /\ pc[w] = "report"
  /\ pc' = [ pc EXCEPT ![w] = "idle" ]
  /\ run' = [ run EXCEPT ![w] = Rest(w) ]
  /\ last_op' = Ended(w, "done", run[w].faulted)
  /\ UNCHANGED << envVars, model, indexed, storeVars, started, searchVars, missionVars >>

\* The run is interrupted (KeyboardInterrupt is no Exception: the except
\* branch does not catch it) or its process is killed.
BulkPcs == { "count", "dcmread", "embed", "put", "insert", "report" }

CancelBulk(w) ==
  /\ pc[w] \in BulkPcs
  /\ pc' = [ pc EXCEPT ![w] = "idle" ]
  /\ run' = [ run EXCEPT ![w] = Rest(w) ]
  /\ last_op' = Ended(w, "cancelled", run[w].faulted)
  /\ UNCHANGED << envVars, model, indexed, storeVars, started, searchVars, missionVars >>


\* ------------------------------------------------ insert_patient_record
\* The intake ends: it returned ("done") or an exception left it ("raised");
\* last_op keeps which.
EndSingle(w, how, fault) ==
  /\ pc' = [ pc EXCEPT ![w] = "idle" ]
  /\ run' = [ run EXCEPT ![w] = Rest(w) ]
  /\ last_op' = Ended(w, how, run[w].faulted \/ fault)

StartSingle(w) ==
  /\ pc[w] = "idle"
  /\ started < MaxOps
  /\ started' = started + 1
  /\ \E a \in SingleArgs :
       run' = [ run EXCEPT ![w] = [ Begin(w, "single") EXCEPT !.args = a ] ]
  /\ pc' = [ pc EXCEPT ![w] = "s_count" ]
  /\ UNCHANGED << envVars, model, indexed, storeVars, last_op, searchVars, missionVars >>

\* Lines 67-69: the count check; an exception of the query propagates.
SingleCount(w) ==
  /\ pc[w] = "s_count"
  /\ \E answered \in BOOLEAN :
       IF ~answered THEN EndSingle(w, "raised", TRUE)
       ELSE IF count_documents(collection, run[w].args.p_id, run[w].args.s_type) > 0
       THEN EndSingle(w, "done", FALSE)
       ELSE /\ pc' = [ pc EXCEPT ![w] = "s_embed" ]
            /\ UNCHANGED << run, last_op >>
  /\ UNCHANGED << envVars, model, indexed, storeVars, started, searchVars, missionVars >>

\* Line 72: vector = get_real_embedding(img_path)
SingleEmbed(w) ==
  /\ pc[w] = "s_embed"
  /\ \E out \in get_real_embedding(model, run[w].args.img.opens, run[w].args.img.image) :
       /\ model' = out.loaded
       /\ IF out.raised THEN EndSingle(w, "raised", TRUE)
          ELSE /\ run' = [ run EXCEPT ![w].vector = out.vector ]
               /\ pc' = [ pc EXCEPT ![w] = "s_put" ]
               /\ UNCHANGED last_op
  /\ UNCHANGED << envVars, indexed, storeVars, started, searchVars, missionVars >>

\* Lines 75-76: open(img_path, "rb") raises when the file is absent; the
\* upload may raise.
SinglePut(w) ==
  /\ pc[w] = "s_put"
  /\ IF ~run[w].args.img.exists
     THEN /\ EndSingle(w, "raised", FALSE)
          /\ UNCHANGED << fs, next_id >>
     ELSE \E stored \in BOOLEAN :
            IF ~stored
            THEN /\ EndSingle(w, "raised", TRUE)
                 /\ UNCHANGED << fs, next_id >>
            ELSE /\ fs' = fs \cup { [ id |-> next_id,
                                      filename |-> JpgName(run[w].args.p_id, run[w].args.s_type),
                                      data |-> [ format |-> "file", of |-> run[w].args.img.image.px ] ] }
                 /\ next_id' = next_id + 1
                 /\ run' = [ run EXCEPT ![w].f_id = next_id, ![w].mine = @ \cup { next_id } ]
                 /\ pc' = [ pc EXCEPT ![w] = "s_insert" ]
                 /\ UNCHANGED last_op
  /\ UNCHANGED << envVars, model, indexed, collection, started, searchVars, missionVars >>

\* Lines 78-81
SingleDoc(w) ==
  [ patient_id    |-> run[w].args.p_id,
    name          |-> run[w].args.name,
    scan_type     |-> run[w].args.s_type,
    image_file_id |-> run[w].f_id,
    image_vector  |-> run[w].vector ]

\* Lines 82-83: collection.insert_one(doc)
SingleInsert(w) ==
  /\ pc[w] = "s_insert"
  /\ \E written \in BOOLEAN :
       IF ~written
       THEN /\ EndSingle(w, "raised", TRUE)
            /\ UNCHANGED collection
       ELSE /\ collection' = collection \cup { SingleDoc(w) }
            /\ EndSingle(w, "done", FALSE)
  /\ UNCHANGED << envVars, model, indexed, fs, next_id, started, searchVars, missionVars >>

\* ------------------------------------------------------- specifications
Step(w) ==
  \/ BulkCount(w) \/ BulkDcmread(w) \/ BulkEmbed(w) \/ BulkPut(w) \/ BulkInsert(w)
  \/ BulkReport(w) \/ CancelBulk(w)
  \/ SingleCount(w) \/ SingleEmbed(w) \/ SinglePut(w) \/ SingleInsert(w)

\* Operations run one after the other: an operation starts only when no
\* other is in progress.
Next ==
  \E w \in Workers :
    \/ Alone(w) /\ StartBulk(w)
    \/ Alone(w) /\ StartSingle(w)
    \/ Step(w)

Spec == InitIngest /\ [][Next]_vars

\* Operations of different workers interleave step by step.
NextConcurrent ==
  \E w \in Workers :
    \/ StartBulk(w)
    \/ StartSingle(w)
    \/ Step(w)

\* The interleaved specification starts from the two-series sources.
InitConcurrent ==
  /\ InitIngest
  /\ \E src \in { SourceOne, SourceTwins } : source = src.folders /\ meta_lookup = src.meta

SpecConcurrent == InitConcurrent /\ [][NextConcurrent]_vars

\* ------------------------------------------------ mission_vector_search
\* "numCandidates": 10 and "limit": 2 of the $vectorSearch stage.
NUM_CANDIDATES == 10
SEARCH_LIMIT == 2

\* vectorSearchScore values, in units of 0.00001; 100000 is the score of
\* a vector identical to the query vector.
SCORE_ONE == 100000
LowerScores == { 80000, 91004, 95000 }

\* f"{score:.4f}": the score rounded to four decimals, in units of 0.0001
\* (no score of the model ends in a 5).
Format4(score) == (score + 5) \div 10

NoResults == [ state |-> "none", rows |-> << >> ]

\* The anchors the search may be given: None, a document without an
\* image_vector field, or a document of the collection.
BareRecord == [ patient_id |-> PAT_PREFIX \o D_007, scan_type |-> D_T2 ]
Anchors == { NoneRecord, BareRecord } \cup collection

\* not anchor_record or 'image_vector' not in anchor_record
AnchorInvalid(anchor) == "image_vector" \notin DOMAIN anchor

\* The documents the vector index holds: those whose image_vector has the
\* index's dimension.
Indexed(coll) == { d \in coll : d.image_vector.dim = CLIP_DIM }

\* The score the index gives a document for a query vector.
ScoresFor(d, queryVector) ==
  IF d.image_vector = queryVector THEN { SCORE_ONE } ELSE LowerScores

\* The $project stage: patient_id, scan_type and the score.
Project(d, score) ==
  [ patient_id |-> d.patient_id, scan_type |-> d.scan_type, score |-> score ]

\* What collection.aggregate(pipeline) may return: at most "limit" rows,
\* for distinct indexed documents, out of at most "numCandidates"
\* candidates, in the order the adapter delivers them.
AggregateRows(coll, queryVector) ==
  LET docs == Indexed(coll)
      most == Min(SEARCH_LIMIT, Min(NUM_CANDIDATES, Cardinality(docs)))
      picks == { sq \in UNION { [1..n -> docs] : n \in 0..most } :
                   \A i, j \in 1..Len(sq) : i # j => sq[i] # sq[j] }
  IN  UNION { { [ i \in 1..Len(sq) |-> Project(sq[i], sc[i]) ] :
                 sc \in { f \in [1..Len(sq) -> LowerScores \cup { SCORE_ONE }] :
                            \A i \in 1..Len(sq) : f[i] \in ScoresFor(sq[i], queryVector) } } :
              sq \in picks }

\* Lines 304-305: one [Match] line per row, in the order of the rows.
MatchLine(doc) ==
  [ id |-> doc.patient_id, scan |-> doc.scan_type, similarity |-> Format4(doc.score) ]

MatchLines(rows) == [ i \in 1..Len(rows) |-> MatchLine(rows[i]) ]

\* mission_vector_search(collection, anchor_record).  An empty query
\* vector makes the $vectorSearch stage fail or return nothing.
VectorSearch(anchor) ==
  IF AnchorInvalid(anchor)
  THEN /\ results' = [ state |-> "refused", rows |-> << >> ]
       /\ printed' = << [ anchor |-> anchor, line |-> "[Error] Anchor record is invalid or missing vector data." ] >>
  ELSE \/ /\ anchor.image_vector.dim = 0
          /\ results' = [ state |-> "raised", rows |-> << >> ]
          /\ printed' = << [ anchor |-> anchor, line |-> "[DBMS] Executing Aggregation Pipeline..." ] >>
       \/ \E rows \in AggregateRows(collection, anchor.image_vector) :
            /\ anchor.image_vector.dim = 0 => rows = << >>
            /\ results' = [ state |-> "returned", rows |-> rows ]
            /\ printed' = << [ anchor |-> anchor, line |-> "[DBMS] Executing Aggregation Pipeline..." ] >>
                           \o (IF rows = << >>
                               THEN << [ anchor |-> anchor, line |-> "[Warning] No similar scans found." ] >>
                               ELSE [ i \in 1..Len(rows) |->
                                        [ anchor |-> anchor, line |-> "[Match]", match |-> MatchLines(rows)[i] ] ])

\* The search, once, on any anchor, when no ingestion is in progress.
mission_vector_search ==
  /\ results = NoResults
  /\ \A w \in Workers : pc[w] = "idle"
  /\ \E anchor \in Anchors : VectorSearch(anchor)
  /\ UNCHANGED << envVars, indexed, storeVars, workVars, missionVars >>

\* Ingestion, one operation after the other, and then the search.
NextSearch ==
  \/ results = NoResults /\ Next
  \/ mission_vector_search

SpecSearch == InitIngest /\ [][NextSearch]_vars

\* ---------------------------------------------- claims on the ingestion
\* No two documents of the collection share (patient_id, scan_type).
UniqueKeys ==
  \A d, e \in collection :
    (d.patient_id = e.patient_id /\ d.scan_type = e.scan_type) => d = e

KeyOf(r) == << r.patient_id, r.scan_type >>
Keys(coll) == { KeyOf(d) : d \in coll }

\* The workers that are inside a bulk run, and those at its final report.
InBulk == { w \in Workers : run[w].kind = "bulk" /\ pc[w] \in BulkPcs }
AtReport == { w \in Workers : run[w].kind = "bulk" /\ pc[w] = "report" }

\* C1: when operations run one after the other, no two documents of the
\* archive share (patient_id, scan_type), also when one run's dataset
\* holds the same pair twice.
C1_UniqueWhenSerialized == UniqueKeys

\* C1 witness: a run whose dataset holds one pair twice archived the first
\* of the two and skipped the second; the pair is in the archive.
C1_Witness ==
  \E w \in AtReport :
    /\ Len(run[w].dataset) = 2
    /\ KeyOf(run[w].dataset[1]) = KeyOf(run[w].dataset[2])
    /\ run[w].log = << "ok", "skip" >>
    /\ KeyOf(run[w].dataset[1]) \in Keys(collection)

\* The bulk runs that began right after a bulk run had completed, and
\* those among them whose predecessor saw no call of the store or the
\* model raise.
SecondRuns == { w \in InBulk : run[w].prev.kind = "bulk" /\ run[w].prev.done }
SecondRunsAfterClean == { w \in SecondRuns : run[w].prev.clean }

C3_UniqueWhenInterleaved ==
  \A d \in collection :
    Cardinality({ e \in collection : KeyOf(e) = KeyOf(d) }) = 1

\* The record's pair was archived when the loop reached it: it was in the
\* archive when the run began, or the run had archived it itself.
ArchivedBefore(w, i) ==
  \/ KeyOf(run[w].dataset[i]) \in Keys(run[w].start_coll)
  \/ \E j \in 1..(i - 1) :
       run[w].log[j] = "ok" /\ KeyOf(run[w].dataset[j]) = KeyOf(run[w].dataset[i])

Readable(w, i) == disk[run[w].dataset[i].file_path].readable

\* The documents a run added to the archive.
Added(w) == collection \ run[w].start_coll

\* C4: at the end of a bulk run (operations one after the other) every
\* record of the dataset has been dealt with; a record whose scan cannot
\* be read and whose pair is not archived yet is logged as one failure and
\* gets no document; a readable record whose pair is not archived yet is
\* archived unless a call of the store or the model raised for it; an
\* archived pair gets no second document; and the archive has gained
\* exactly one document per record that was archived, whatever failed
\* before it.
C4_FailureIsolation ==
  \A w \in AtReport :
    LET ds == run[w].dataset
        log == run[w].log
        oks == { i \in 1..Len(ds) : log[i] = "ok" }
    IN  /\ Len(log) = Len(ds)
        /\ \A i \in 1..Len(ds) :
             /\ ArchivedBefore(w, i) => log[i] \in { "skip", "adapter" }
             /\ (~ArchivedBefore(w, i) /\ ~Readable(w, i)) => log[i] \in { "undecodable", "adapter" }
             /\ (~ArchivedBefore(w, i) /\ Readable(w, i)) => log[i] \in { "ok", "adapter" }
             /\ (log[i] = "ok") <=>
                  (\E d \in Added(w) :
                     /\ "dicom_source" \in DOMAIN d
                     /\ d.dicom_source = ds[i].file_path
                     /\ KeyOf(d) = KeyOf(ds[i]))
        /\ run[w].start_coll \subseteq collection
        /\ Cardinality(Added(w)) = Cardinality(oks)
        /\ run[w].success_count = Cardinality(oks)

\* C4 witness: three records, the second cannot be read; the first and the
\* third are archived and one failure is logged.
C4_Witness ==
  \E w \in AtReport :
    /\ run[w].log = << "ok", "undecodable", "ok" >>
    /\ Cardinality(Added(w)) = 2

\* C5 as claimed: while a bulk run is still in its loop none of its
\* documents is in the archive.
C5_NoPartialBatch ==
  \A w \in InBulk \ AtReport :
    \A d \in collection : d.image_file_id \notin run[w].mine

\* C6 as claimed: every document of the archive has an image_vector of the
\* embedding model's output dimension.
C6_VectorsHaveModelDimension ==
  \A d \in collection : d.image_vector.dim = CLIP_DIM

\* ------------------------------------------------- claims on the search
MatchLinesPrinted == { i \in 1..Len(printed) : printed[i].line = "[Match]" }

\* C9 as claimed: the matches are printed in descending order of score.
C9_MatchesDescending ==
  \A i, j \in MatchLinesPrinted :
    i < j => printed[i].match.similarity >= printed[j].match.similarity

\* C10 as claimed: no printed match is the anchor record itself.
C10_AnchorNotReported ==
  \A i \in MatchLinesPrinted :
    ~(/\ printed[i].match.id = printed[i].anchor.patient_id
      /\ printed[i].match.scan = printed[i].anchor.scan_type)

\* The anchor the last search was given has no embedding: it is None, has
\* no image_vector field, or its image_vector is the empty list.
AnchorWithoutEmbedding ==
  /\ printed # << >>
  /\ \/ "image_vector" \notin DOMAIN printed[1].anchor
     \/ printed[1].anchor.image_vector.feat = << >>

\* C11 as claimed: a search whose anchor has no embedding is refused with
\* the error line and never reaches collection.aggregate.
C11_NoQueryWithoutEmbedding ==
  AnchorWithoutEmbedding =>
    /\ results.state = "refused"
    /\ \A i \in 1..Len(printed) : printed[i].line # "[DBMS] Executing Aggregation Pipeline..."

\* ----------------------------------------- the normalizer's specification
\* Longest pixel array the normalizer's specification enumerates.
MaxPixels == 2

\* Intensities a scan may hold (12-bit data, signed after rescaling).
PixelValues == { -5, 0, 1, 10, 40, 255, 256, 4095 }

PixelArrays == UNION { [1..n -> PixelValues] : n \in 1..MaxPixels }

\* The one file the normalizer is given.
ScanPath == << D_7, D_T1, N_a_dcm >>

InitNormalize ==
  /\ source = << >>
  /\ meta_lookup = << >>
  /\ disk \in [ { ScanPath } -> { Corrupt } \cup { Scan(px) : px \in PixelArrays } ]
  /\ indexed = NoDataset
  /\ collection = {}
  /\ fs = {}
  /\ next_id = 1
  /\ pc = << >>
  /\ run = << >>
  /\ model = FALSE
  /\ started = 0
  /\ last_op = NoOp
  /\ results = [ state |-> "none", rows |-> << >> ]
  /\ printed = << >>
  /\ processed = NotProcessed
  /\ mission = NoMission
  /\ clients = 0

\* process_dicom_image(file_path): (image, bytes), or (None, None) when
\* anything in it raised.
process_dicom_image ==
  /\ processed = NotProcessed
  /\ LET content == disk[ScanPath]
     IN  IF ~content.readable
         THEN processed' = [ state |-> "failed" ]
         ELSE \E image \in ToImages(content.pixels) :
                processed' = [ state |-> "returned", image |-> image, bytes |-> ToJpeg(image) ]
  /\ UNCHANGED << envVars, indexed, storeVars, workVars, searchVars >>
  /\ UNCHANGED << mission, clients >>

NextNormalize == process_dicom_image

SpecNormalize == InitNormalize /\ [][NextNormalize]_vars

\* The pixel array of the file, and the largest intensity in it, stated
\* without recursion.
Pixels == disk[ScanPath].pixels
IsMaxOf(m, px) ==
  /\ \E i \in 1..Len(px) : px[i] = m
  /\ \A i \in 1..Len(px) : px[i] <= m

\* C12: for a pixel array whose maximum is greater than 0 the normalizer
\* returns an image of as many values, each in 0..255, 0 where the input is
\* negative (or 0) and 255 where the input is the maximum, and a larger
\* input never gets a smaller value.
C12_NormalizedRange ==
  (processed.state = "returned" /\ \E m \in PixelValues : m > 0 /\ IsMaxOf(m, Pixels)) =>
    LET out == processed.image.px
    IN  /\ Len(out) = Len(Pixels)
        /\ \A i \in 1..Len(out) :
             /\ out[i] \in 0..255
             /\ Pixels[i] <= 0 => out[i] = 0
             /\ IsMaxOf(Pixels[i], Pixels) => out[i] = 255
             /\ \A j \in 1..Len(out) : Pixels[i] <= Pixels[j] => out[i] <= out[j]
        /\ processed.bytes.of = out

\* C12 witness: a negative intensity beside the maximum, normalized.
C12_Witness ==
  /\ processed.state = "returned"
  /\ Pixels = << -5, 4095 >>
  /\ processed.image.px = << 0, 255 >>

\* ------------------------------------------------------------ db_mission
\* Phases entered in one behaviour.
MaxPhases == 2

Phases == { "Phase I", "Phase II", "Phase III" }

\* The body's first position, per phase.
BodyEntry(phase) == IF phase = "Phase III" THEN "retrieve_id" ELSE "body"

\* p_id and s_type of phase_3_manipulating: the hero record's pair or the
\* pair of a scan of the source.
MissionKeys ==
  LET ds == scan_directory(source, meta_lookup)
  IN  { [ p_id |-> PAT_PREFIX \o D_007, s_type |-> D_T2 ] }
      \cup { [ p_id |-> ds[i].patient_id, s_type |-> ds[i].scan_type ] : i \in 1..Len(ds) }

\* wrapper, lines 42-43 up to MongoClient(get_connection_uri()): without
\* MONGODB_URI get_connection_uri raises and no client exists; otherwise
\* the client is created and defining_db goes on.
MissionEnter ==
  /\ mission.pc = "out"
  /\ mission.entered < MaxPhases
  /\ \E phase \in Phases, uri \in BOOLEAN :
       IF ~uri
       THEN /\ mission' = [ NoMission EXCEPT !.phase = phase, !.entered = mission.entered + 1 ]
            /\ UNCHANGED clients
       ELSE /\ mission' = [ NoMission EXCEPT !.phase = phase, !.pc = "defining",
                                              !.entered = mission.entered + 1,
                                              !.from = started ]
            /\ clients' = clients + 1
  /\ results' = NoResults
  /\ printed' = << >>
  /\ UNCHANGED << envVars, indexed, storeVars, workVars, processed >>

\* defining_db, lines 25-35: list_collection_names (and create_collection
\* when the namespace is absent) talk to the server and may raise; the
\* call is outside the wrapper's try, so the exception leaves the wrapper
\* at once.  Otherwise the body starts, for Phase III with its p_id and
\* s_type.
DefiningDb ==
  /\ mission.pc = "defining"
  /\ \E answered \in BOOLEAN :
       IF ~answered
       THEN mission' = [ mission EXCEPT !.pc = "out" ]
       ELSE \E key \in (IF mission.phase = "Phase III" THEN MissionKeys ELSE { NoKey }) :
              mission' = [ mission EXCEPT !.pc = BodyEntry(mission.phase), !.key = key ]
  /\ UNCHANGED << envVars, indexed, storeVars, workVars, searchVars, processed, clients >>

\* finally: client.close()
MissionClose ==
  /\ mission.pc = "closing"
  /\ clients' = clients - 1
  /\ mission' = [ mission EXCEPT !.pc = "out" ]
  /\ UNCHANGED << envVars, indexed, storeVars, workVars, searchVars, processed >>

\* phase_1_defining: prints the address and defines the index
\* (define_vector_index catches what create_search_index raises); it
\* returns or raises, and the finally block is next.
phase_1_defining ==
  /\ mission.pc = "body"
  /\ mission.phase = "Phase I"
  /\ mission' = [ mission EXCEPT !.pc = "closing" ]
  /\ UNCHANGED << envVars, indexed, storeVars, workVars, searchVars, processed, clients >>

\* phase_2_constructing runs intakes and the bulk run one after the other.
\* No operation of this body has ended by an exception:
BodyOk == started = mission.from \/ last_op.done

InPhaseTwo == mission.pc = "body" /\ mission.phase = "Phase II"

\* The body returns (the hero image is absent, or its operations are
\* over) or an exception of an operation leaves it; the finally block is
\* next.
PhaseTwoEnd ==
  /\ InPhaseTwo
  /\ \A w \in Workers : pc[w] = "idle"
  /\ mission' = [ mission EXCEPT !.pc = "closing" ]
  /\ UNCHANGED << envVars, indexed, storeVars, workVars, searchVars, processed, clients >>

\* str(doc.get('clinician_notes', 'N/A'))[:50]
NotesShown(doc) ==
  LET notes == IF "clinician_notes" \in DOMAIN doc THEN doc.clinician_notes ELSE << "N", "/", "A" >>
  IN  SubSeq(notes, 1, Min(Len(notes), 50))

\* The orders in which a cursor may deliver a set of documents.
Orders(docs) ==
  { sq \in [1..Cardinality(docs) -> docs] : \A i, j \in 1..Len(sq) : i # j => sq[i] # sq[j] }

\* collection.find({"patient_id": p_id})
find(coll, p_id) == { d \in coll : d.patient_id = p_id }

\* collection.find_one({"patient_id": p_id, "scan_type": s_type}): a
\* matching document, or None.
find_one(coll, p_id, s_type) ==
  LET hits == { d \in coll : d.patient_id = p_id /\ d.scan_type = s_type }
  IN  IF hits = {} THEN { NoneRecord } ELSE hits

\* mission_retrieve_id(collection, p_id): the query may raise; otherwise
\* the count and one line per document are printed.
mission_retrieve_id ==
  /\ mission.pc = "retrieve_id"
  /\ \E answered \in BOOLEAN :
       IF ~answered
       THEN /\ mission' = [ mission EXCEPT !.pc = "closing" ]
            /\ UNCHANGED searchVars
       ELSE \E rows \in Orders(find(collection, mission.key.p_id)) :
              /\ results' = [ state |-> "found", rows |-> rows ]
              /\ printed' = << [ line |-> "[DBMS] Found", count |-> Len(rows) ] >>
                             \o [ i \in 1..Len(rows) |->
                                    [ line |-> "Scan", scan |-> rows[i].scan_type,
                                      note |-> NotesShown(rows[i]) ] ]
              /\ mission' = [ mission EXCEPT !.pc = "retrieve_condition" ]
  /\ UNCHANGED << envVars, indexed, storeVars, workVars, processed, clients >>

\* Mutant: the record is taken out of the collection (find_one_and_delete).
mission_retrieve_condition_taking ==
  /\ mission.pc = "retrieve_condition"
  /\ \E record \in find_one(collection, mission.key.p_id, mission.key.s_type) :
       /\ collection' = collection \ { record }
       /\ results' = [ state |-> "found", rows |-> << record >> ]
       /\ printed' = << [ line |-> "[Success] Specific scan retrieved." ] >>
       /\ mission' = [ mission EXCEPT !.pc = "vector_search", !.anchor = record ]
  /\ UNCHANGED << envVars, indexed, fs, next_id, workVars, processed, clients >>

\* mission_retrieve_condition(collection, fs, p_id, s_type): find_one and,
\* for a record, fs.get may raise (display_image catches its own
\* exceptions); the record, or None, is returned as the anchor.
mission_retrieve_condition ==
  /\ mission.pc = "retrieve_condition"
  /\ \E answered \in BOOLEAN :
       IF ~answered
       THEN /\ mission' = [ mission EXCEPT !.pc = "closing" ]
            /\ UNCHANGED searchVars
       ELSE \E record \in find_one(collection, mission.key.p_id, mission.key.s_type) :
              IF record = NoneRecord
              THEN /\ results' = [ state |-> "found", rows |-> << >> ]
                   /\ printed' = << [ line |-> "[Falied] No record found" ] >>
                   /\ mission' = [ mission EXCEPT !.pc = "vector_search" ]
              ELSE \E got \in BOOLEAN :
                     IF got /\ \E f \in fs : f.id = record.image_file_id
                     THEN /\ results' = [ state |-> "found", rows |-> << record >> ]
                          /\ printed' = << [ line |-> "[Success] Specific scan retrieved." ] >>
                          /\ mission' = [ mission EXCEPT !.pc = "vector_search", !.anchor = record ]
                     ELSE /\ results' = NoResults
                          /\ printed' = << [ line |-> "[Success] Specific scan retrieved." ] >>
                          /\ mission' = [ mission EXCEPT !.pc = "closing" ]
  /\ UNCHANGED << envVars, indexed, storeVars, workVars, processed, clients >>

\* Lines 326-330: the similarity search on the anchor, or the error line
\* when there is none; the body is over (or the search raised).
PhaseThreeSearch ==
  /\ mission.pc = "vector_search"
  /\ IF mission.anchor = NoneRecord
     THEN /\ results' = NoResults
          /\ printed' = << [ line |-> "[Error] Anchor record not found for vector search." ] >>
     ELSE VectorSearch(mission.anchor)
  /\ mission' = [ mission EXCEPT !.pc = "closing" ]
  /\ UNCHANGED << envVars, indexed, storeVars, workVars, processed, clients >>

\* The program's phases, one at a time, each inside the wrapper.
NextMission ==
  \/ MissionEnter
  \/ DefiningDb
  \/ phase_1_defining
  \/ \E w \in Workers :
       \/ InPhaseTwo /\ BodyOk /\ Alone(w) /\ StartSingle(w)
       \/ InPhaseTwo /\ BodyOk /\ Alone(w) /\ StartBulk(w)
       \/ Step(w)
  \/ PhaseTwoEnd
  \/ mission_retrieve_id
  \/ mission_retrieve_condition
  \/ PhaseThreeSearch
  \/ MissionClose

\* The phases run over the source with one annotated study.
InitMission ==
  /\ InitIngest
  /\ source = SourceOne.folders
  /\ meta_lookup = SourceOne.meta

SpecMission == InitMission /\ [][NextMission]_vars

\* ------------------------------------------------ claims on the phases
RetrievalPcs == { "retrieve_id", "retrieve_condition", "vector_search" }

\* C13: every step of the program (of a bulk run, of a single intake, of
\* the three retrievals, of the wrapper) keeps every archived document and
\* every stored payload as it is; a step of a retrieval leaves archive and
\* object store exactly as they were.
C13_ArchivedRecordsStay ==
  [][ /\ \A d \in collection : d \in collection'
      /\ \A f \in fs : f \in fs'
      /\ mission.pc \in RetrievalPcs => (collection' = collection /\ fs' = fs) ]_vars

\* C13 witness: a similarity search has returned a match from an archive
\* of two records, after a retrieval by identity and one by identity and
\* category in the same phase.
C13_Witness ==
  /\ mission.phase = "Phase III"
  /\ mission.pc = "closing"
  /\ mission.anchor \in collection
  /\ results.state = "returned"
  /\ Len(results.rows) = 2
  /\ Cardinality(collection) = 2

\* C18 as claimed: whenever no phase is running, every client that was
\* opened has been closed.
C18_ClientClosedOnEveryExit ==
  mission.pc = "out" => clients = 0

\* ------------------------------------- claims on the skip and the handle
\* Where a bulk run or an intake is past its duplication check: reading
\* and normalizing the scan, embedding it, uploading, inserting.
PastCheckBulk == { "dcmread", "embed", "put", "insert" }
PastCheckSingle == { "s_embed", "s_put", "s_insert" }

\* The records of a finished loop whose pair was archived when the loop
\* reached them.
Archived(w) == { i \in 1..Len(run[w].log) : ArchivedBefore(w, i) }

\* C14: with operations one after the other, a bulk run or an intake is
\* never past its duplication check (normalizing, embedding, uploading,
\* inserting) for a pair the archive holds; at the end of a bulk run every
\* record whose pair was archived is logged as skipped, not as a failure
\* (unless the count query itself raised), and the run was handed no more
\* payload handles and added no more documents than it has other records.
C14_ArchivedPairsAreSkipped ==
  /\ \A w \in Workers :
       /\ pc[w] \in PastCheckBulk => KeyOf(Record(w)) \notin Keys(collection)
       /\ pc[w] \in PastCheckSingle =>
            << run[w].args.p_id, run[w].args.s_type >> \notin Keys(collection)
  /\ \A w \in AtReport :
       /\ \A i \in Archived(w) : run[w].log[i] \in { "skip", "adapter" }
       /\ (~run[w].faulted) => \A i \in Archived(w) : run[w].log[i] = "skip"
       /\ Cardinality(run[w].mine) <= Len(run[w].log) - Cardinality(Archived(w))
       /\ Cardinality(fs \ run[w].start_fs) <= Len(run[w].log) - Cardinality(Archived(w))
       /\ Cardinality(Added(w)) <= Len(run[w].log) - Cardinality(Archived(w))

\* C14 witness: a bulk run over an archive that holds both of its pairs
\* skipped both records; it uploaded nothing and left both stores as it
\* found them.
C14_Witness ==
  \E w \in AtReport :
    /\ run[w].log = << "skip", "skip" >>
    /\ Cardinality(run[w].start_coll) = 2
    /\ run[w].mine = {}
    /\ collection = run[w].start_coll
    /\ fs = run[w].start_fs

\* The stored files a document's image handle refers to.
PayloadsOf(d) == { f \in fs : f.id = d.image_file_id }

\* C15: every document of the archive has an image handle that refers to
\* exactly one file of the object store, the file uploaded under the
\* document's own pair; no two documents share a handle.
C15_HandleRefersToPayload ==
  /\ \A d \in collection :
       /\ Cardinality(PayloadsOf(d)) = 1
       /\ \A f \in PayloadsOf(d) : f.filename = JpgName(d.patient_id, d.scan_type)
  /\ \A d, e \in collection : d.image_file_id = e.image_file_id => d = e

\* C15 witness: two documents, each with its payload, beside a third
\* payload that no document refers to, at the end of a run that logged a
\* failure of a store or model call.
C15_Witness ==
  /\ Cardinality(collection) = 2
  /\ Cardinality(fs) = 3
  /\ \E w \in AtReport : \E i \in 1..Len(run[w].log) : run[w].log[i] = "adapter"
  /\ \A d \in collection : PayloadsOf(d) # {}

\* ------------------------------------------ the specification of big runs
\* str(n) for n >= 0.
DigitChar(d) ==
  CASE d = 0 -> "0" [] d = 1 -> "1" [] d = 2 -> "2" [] d = 3 -> "3" [] d = 4 -> "4"
    [] d = 5 -> "5" [] d = 6 -> "6" [] d = 7 -> "7" [] d = 8 -> "8" [] d = 9 -> "9"

RECURSIVE Dec(_)
Dec(n) == IF n < 10 THEN << DigitChar(n) >> ELSE Append(Dec(n \div 10), DigitChar(n % 10))

\* Series directories of one study in the big sources.
SeriesPerStudy == 50

\* n series directories "1", "2", ..., each holding one scan file, in
\* annotated studies "1", "2", ... of at most SeriesPerStudy series each.
SourceBig(n) ==
  LET studies == (n + SeriesPerStudy - 1) \div SeriesPerStudy
      first(k) == (k - 1) * SeriesPerStudy + 1
      last(k)  == Min(k * SeriesPerStudy, n)
  IN  [ folders |->
          [ k \in 1..studies |->
              [ name |-> Dec(k),
                walk |-> << Dir(<< Dec(k) >>, << >>) >>
                         \o [ i \in 1..(last(k) - first(k) + 1) |->
                                Dir(<< Dec(k), Dec(first(k) + i - 1) >>, << N_a_dcm >>) ] ] ],
        meta |-> [ key \in { Dec(k) : k \in 1..studies } |-> NotesOf(key) ] ]

\* The numbers of series: one, as many as the loop takes, and one more.
BigSizes == { 1, LIMIT, LIMIT + 1 }

InitBig ==
  /\ \E n \in BigSizes :
       /\ source = SourceBig(n).folders
       /\ meta_lookup = SourceBig(n).meta
       /\ disk = [ path \in SelectedPaths(SourceBig(n)) |-> Scan(<< -5, 0, 10, 40 >>) ]
  /\ indexed = NoDataset
  /\ collection = {}
  /\ fs = {}
  /\ next_id = 1
  /\ pc = [ w \in Workers |-> "idle" ]
  /\ run = [ w \in Workers |-> IdleRun ]
  /\ model = FALSE
  /\ started = 0
  /\ last_op = NoOp
  /\ results = [ state |-> "none", rows |-> << >> ]
  /\ printed = << >>
  /\ processed = NotProcessed
  /\ mission = NoMission
  /\ clients = 0

\* Nothing has failed: no call of the store or of the model raised, and no
\* embedding came back empty.
Quiet ==
  \A w \in Workers :
    /\ ~run[w].faulted
    /\ pc[w] \in { "put", "insert" } => run[w].vector.dim = CLIP_DIM

\* Bulk runs one after the other in which nothing fails and which are not
\* interrupted.
NextBig ==
  \E w \in Workers :
    \/ Alone(w) /\ StartBulk(w)
    \/ BulkCount(w) /\ Quiet'
    \/ BulkDcmread(w) /\ Quiet'
    \/ BulkEmbed(w) /\ Quiet'
    \/ BulkPut(w) /\ Quiet'
    \/ BulkInsert(w) /\ Quiet'
    \/ BulkReport(w)

SpecBig == InitBig /\ [][NextBig]_vars

\* C16 as claimed: at the end of a bulk run in which nothing failed, every
\* candidate the indexer produces for the source has a document in the
\* archive.
C16_EveryCandidateArchived ==
  \A w \in AtReport :
    \A c \in Elems(scan_directory(source, meta_lookup)) : KeyOf(c) \in Keys(collection)

\* ----------------------------------- the specification of flat scans
\* Scan files whose intensities have no range above zero, beside an
\* ordinary scan and an unreadable file.
FlatContents ==
  { Corrupt, Scan(<< 0, 0 >>), Scan(<< -5, 0 >>), Scan(<< -5, 0, 10, 40 >>) }

\* The state before any phase, with such files in the one-study source.
InitFlat ==
  /\ source = SourceOne.folders
  /\ meta_lookup = SourceOne.meta
  /\ disk \in [ SelectedPaths(SourceOne) -> FlatContents ]
  /\ indexed = NoDataset
  /\ collection = {}
  /\ fs = {}
  /\ next_id = 1
  /\ pc = [ w \in Workers |-> "idle" ]
  /\ run = [ w \in Workers |-> IdleRun ]
  /\ model = FALSE
  /\ started = 0
  /\ last_op = NoOp
  /\ results = [ state |-> "none", rows |-> << >> ]
  /\ printed = << >>
  /\ processed = NotProcessed
  /\ mission = NoMission
  /\ clients = 0

SpecFlat == InitFlat /\ [][Next]_vars

\* The file holds a pixel array whose largest intensity is 0.
ZeroRange(content) ==
  /\ content.readable
  /\ \A i \in 1..Len(content.pixels) : content.pixels[i] <= 0
  /\ \E i \in 1..Len(content.pixels) : content.pixels[i] = 0

\* C17 as claimed: a scan whose largest intensity is 0 never gets past the
\* normalization of a bulk run (no embedding, no upload, no insert), and
\* no document of the archive comes from such a scan.
C17_ZeroRangeRejected ==
  /\ \A w \in Workers :
       pc[w] \in { "embed", "put", "insert" } => ~ZeroRange(disk[Record(w).file_path])
  /\ \A d \in collection :
       "dicom_source" \in DOMAIN d => ~ZeroRange(disk[d.dicom_source])

\* ------------------------------------------- claim on the dedup queries
\* The distinct patient identities among a run's candidates.
Identities(w) == { run[w].dataset[i].patient_id : i \in 1..Len(run[w].dataset) }

\* C19 as claimed: a bulk run issues at most as many dedup queries as its
\* candidates have distinct patient identities.
C19_QueriesBoundedByIdentities ==
  \A w \in InBulk : run[w].queries <= Cardinality(Identities(w))

====
